---- MODULE Spec2Model ----
(***************************************************************************)
(* gin-goll: the admission middleware that puts a goll load limiter in     *)
(* front of gin routes (src/gin_goll.go).                                  *)
(*                                                                         *)
(* The heap of *loadLimiterMiddleware values is the sequence `instances`   *)
(* (a pointer is an index, 0 is nil); an installed gin.HandlerFunc is the  *)
(* pointer its closure captured.  A request is one run of that closure on  *)
(* a gin.Context, taken in the steps between its calls to the outside      *)
(* (the tenant key function, the limiter, the custom handlers, gin).       *)
(* The limiter, the key function and the custom handlers are not part of   *)
(* the repository: what they return is drawn from small sets.              *)
(***************************************************************************)
EXTENDS Integers, Sequences, FiniteSets, TLC

VARIABLES
    instances,  \* heap of loadLimiterMiddleware records
    installed,  \* pointers captured by the handler closures gin holds
    panics,     \* panics raised by Default()/WithLoad(n): [inst, msg]
    reqs,       \* per slot: the closure's run on one gin.Context
    chain,      \* per slot: the handlers gin still has to call on the context
    client,     \* per slot: who sent the request, on which route, as a retry or not
    goll,       \* the limiter: per tenant, the loads accepted and when
    now         \* the time (ns)

\* What lies outside the middleware: gin's routing, the clients, the limiter.
world == <<chain, client, goll, now>>

vars == <<instances, installed, panics, reqs, chain, client, goll, now>>

----------------------------------------------------------------------------
(* Bounds *)

MaxInstances == 3   \* the instance made by NewLimiterMiddleware and two clones
MaxLoad == 2        \* loads are drawn from 0..MaxLoad

Slots == {1}        \* gin.Context values in flight
Held == {1}         \* the pointers the caller holds: what NewLimiterMiddleware returned
Loads == 0..MaxLoad

----------------------------------------------------------------------------
(* Values *)

Nil == "nil"        \* a nil func, a nil interface, a nil error
NilPtr == 0         \* a nil *loadLimiterMiddleware

NsPerMs == 1000000  \* time.Millisecond, in time.Duration's unit (ns)

\* Config values a caller can hand to NewLimiterMiddleware.
Configs ==
    [ Limiter          : {Nil, "limiter"},
      DefaultRouteLoad : Loads,
      TenantKey        : {"", "A"},
      TenantKeyFunc    : {Nil, "keyFunc"},
      AcceptHandler    : {Nil, "onAccept"},
      AbortHandler     : {Nil, "onAbort"},
      ErrorHandler     : {Nil, "onError"} ]

\* What a TenantKeyFunc may return: (string, error).
KeyFuncResults ==
    { [key |-> "A", err |-> Nil],
      [key |-> "B", err |-> Nil],
      [key |-> "",  err |-> Nil],
      [key |-> "",  err |-> "keyErr"],
      [key |-> "A", err |-> "keyErr"] }

\* time.Duration values (ns) a SubmitResult may carry in RetryIn.
RetryIns == {-1500000, 999999, 12345678}

\* The SubmitResult values of goll.
SubmitResults ==
    [ Accepted : BOOLEAN, RetryInAvailable : BOOLEAN, RetryIn : RetryIns ]

ZeroResult == [Accepted |-> FALSE, RetryInAvailable |-> FALSE, RetryIn |-> 0]

\* What goll's LoadLimiter.Submit may return, (SubmitResult, error): any result
\* without an error; with an error, the zero result or a result that says
\* accepted or rejected all the same.
SubmitReturns ==
    { [res |-> sr, err |-> Nil] : sr \in SubmitResults }
    \cup { [res |-> sr, err |-> "submitErr"] :
             sr \in { ZeroResult,
                      [Accepted |-> TRUE, RetryInAvailable |-> FALSE, RetryIn |-> 0],
                      [Accepted |-> FALSE, RetryInAvailable |-> TRUE, RetryIn |-> 12345678] } }

\* What a custom handler does with the gin.Context it is given.
UserActs == {"next", "abort"}

\* The tenant keys of the successful KeyFuncResults and of Configs.
Tenants == {"", "A", "B"}

\* No request: no sender, no route, not a retry.
NoClient == [from |-> "", route |-> <<>>, retry |-> FALSE, dueAt |-> 0]

----------------------------------------------------------------------------
(* The factory: NewLimiterMiddleware, clone, validateConfig *)

\* A constructor that validates: a configuration validateConfig would refuse
\* yields an instance without limiter and handlers.
NewLimiterMiddlewareChecked(config) ==
    IF config.Limiter = Nil \/ ((config.TenantKey # "") = (config.TenantKeyFunc # Nil))
    THEN [ limiter |-> Nil, load |-> 0, acceptHandler |-> Nil, abortHandler |-> Nil,
           errorHandler |-> Nil, tenantKey |-> "", tenantKeyFunc |-> Nil ]
    ELSE [ limiter       |-> config.Limiter,
           load          |-> config.DefaultRouteLoad,
           acceptHandler |-> config.AcceptHandler,
           abortHandler  |-> config.AbortHandler,
           errorHandler  |-> config.ErrorHandler,
           tenantKey     |-> config.TenantKey,
           tenantKeyFunc |-> config.TenantKeyFunc ]

\* NewLimiterMiddleware: the instance carries the configuration's fields.
NewLimiterMiddleware(config) ==
    [ limiter       |-> config.Limiter,
      load          |-> config.DefaultRouteLoad,
      acceptHandler |-> config.AcceptHandler,
      abortHandler  |-> config.AbortHandler,
      errorHandler  |-> config.ErrorHandler,
      tenantKey     |-> config.TenantKey,
      tenantKeyFunc |-> config.TenantKeyFunc ]

\* A clone that allocates nothing: the "copy" is the receiver itself.
cloneAliased(heap, p) ==
    [heap |-> heap, ptr |-> p]

\* clone: a new heap cell holding a copy of every field of *p.
clone(heap, p) ==
    [ heap |-> Append(heap,
                 [ limiter       |-> heap[p].limiter,
                   load          |-> heap[p].load,
                   acceptHandler |-> heap[p].acceptHandler,
                   abortHandler  |-> heap[p].abortHandler,
                   errorHandler  |-> heap[p].errorHandler,
                   tenantKey     |-> heap[p].tenantKey,
                   tenantKeyFunc |-> heap[p].tenantKeyFunc ]),
      ptr  |-> Len(heap) + 1 ]

\* A validation that forgets the "both sources given" case.
validateConfigNoBoth(heap, p) ==
    IF p = NilPtr THEN "nil config"
    ELSE IF heap[p].limiter = Nil THEN "limiter is required"
    ELSE IF heap[p].tenantKey = "" /\ heap[p].tenantKeyFunc = Nil
         THEN "one of TenantKey or TenantKeyFunc is required"
    ELSE Nil

\* validateConfig: the error it returns, Nil for none.
validateConfig(heap, p) ==
    IF p = NilPtr THEN "nil config"
    ELSE IF heap[p].limiter = Nil THEN "limiter is required"
    ELSE IF heap[p].tenantKey = "" /\ heap[p].tenantKeyFunc = Nil
         THEN "one of TenantKey or TenantKeyFunc is required"
    ELSE IF heap[p].tenantKey # "" /\ heap[p].tenantKeyFunc # Nil
         THEN "only one of TenantKey or TenantKeyFunc is required"
    ELSE Nil

----------------------------------------------------------------------------
(* The run of the handler closure on one gin.Context *)

\* One call the closure makes: the arguments it passed and, for the key
\* function and Submit, what the call returned.
Ev(op) ==
    [op |-> op, key |-> "", load |-> 0, err |-> Nil, res |-> ZeroResult, val |-> <<>>]

Emit(r, e) == [r EXCEPT !.trace = Append(@, e)]

\* A gin.Context no handler has touched, and the closure's locals unset.
IdleReq ==
    [ pc        |-> "idle",
      inst      |-> NilPtr,      \* the pointer the closure captured
      tenantKey |-> "",          \* local tenantKey
      err       |-> Nil,         \* local err
      res       |-> ZeroResult,  \* local res
      trace     |-> <<>>,        \* the calls made so far, in order
      status    |-> 200,         \* gin's response status
      headers   |-> {},          \* response headers set: <<name, value>>
      aborted   |-> FALSE,       \* c.Abort() was called
      userAct   |-> "",          \* what the invoked custom handler did
      panicked  |-> <<>> ]       \* the value the closure panicked with

\* c.Next() called by the middleware's own code.
Next_(r) == Emit(r, Ev("Next"))

\* c.Header(name, value)
Header(r, name, value) ==
    [Emit(r, [Ev("Header") EXCEPT !.val = value])
        EXCEPT !.headers = {h \in @ : h[1] # name} \cup {<<name, value>>}]

\* c.AbortWithStatus(code)
AbortWithStatus(r, code) ==
    [Emit(r, [Ev("AbortWithStatus") EXCEPT !.load = code])
        EXCEPT !.status = code, !.aborted = TRUE]

----------------------------------------------------------------------------
(* The X-Retry-In value: fmt.Sprintf("%v", res.RetryIn.Milliseconds()) *)

\* Duration.Microseconds() taken for Milliseconds().
Microseconds(d) ==
    IF d >= 0 THEN d \div 1000 ELSE -((-d) \div 1000)

\* time.Duration.Milliseconds(): int64(d) / 1e6, Go's division (toward zero).
Milliseconds(d) ==
    IF d >= 0 THEN d \div NsPerMs ELSE -((-d) \div NsPerMs)

Digit(k) == CASE k = 0 -> "0" [] k = 1 -> "1" [] k = 2 -> "2" [] k = 3 -> "3"
              [] k = 4 -> "4" [] k = 5 -> "5" [] k = 6 -> "6" [] k = 7 -> "7"
              [] k = 8 -> "8" [] k = 9 -> "9"

RECURSIVE FormatNat(_)
FormatNat(n) ==
    IF n < 10 THEN <<Digit(n)>> ELSE Append(FormatNat(n \div 10), Digit(n % 10))

\* fmt.Sprintf("%v", n) of an int64: the decimal text, one character per element.
Sprintf(n) ==
    IF n < 0 THEN <<"-">> \o FormatNat(-n) ELSE FormatNat(n)

DigitVal(c) == CHOOSE k \in 0..9 : Digit(k) = c

RECURSIVE ParseNat(_)
ParseNat(t) ==
    IF t = <<>> THEN 0
    ELSE 10 * ParseNat(SubSeq(t, 1, Len(t) - 1)) + DigitVal(t[Len(t)])

\* strconv.Atoi, as the test reads the header back.
Atoi(t) ==
    IF t # <<>> /\ t[1] = "-" THEN -ParseNat(Tail(t)) ELSE ParseNat(t)

----------------------------------------------------------------------------
(* handleError, handleRejection, handleAccept, effectiveTenantKey *)

\* The value handleError panics with: fmt.Errorf("... %w", err).
Wrapped(err) == <<"error submitting load request: ", err>>

\* An error path that lets the request through after the custom handler ran.
handleErrorContinues(i, r, err, u) ==
    LET r1 == Emit(r, [Ev("handleError") EXCEPT !.err = err])
    IN  IF i.errorHandler # Nil
        THEN Next_([Emit(r1, [Ev("errorHandler") EXCEPT !.err = err]) EXCEPT !.userAct = u])
        ELSE [Emit(r1, [Ev("panic") EXCEPT !.err = err]) EXCEPT !.panicked = Wrapped(err)]

\* An error path that answers 500 itself after the custom handler ran.
handleErrorAnswers(i, r, err, u) ==
    LET r1 == Emit(r, [Ev("handleError") EXCEPT !.err = err])
    IN  IF i.errorHandler # Nil
        THEN AbortWithStatus(
               [Emit(r1, [Ev("errorHandler") EXCEPT !.err = err]) EXCEPT !.userAct = u],
               500)
        ELSE [Emit(r1, [Ev("panic") EXCEPT !.err = err]) EXCEPT !.panicked = Wrapped(err)]

\* handleError: the custom error handler if any, else a panic.
handleError(i, r, err, u) ==
    LET r1 == Emit(r, [Ev("handleError") EXCEPT !.err = err])
    IN  IF i.errorHandler # Nil
        THEN [Emit(r1, [Ev("errorHandler") EXCEPT !.err = err]) EXCEPT !.userAct = u]
        ELSE [Emit(r1, [Ev("panic") EXCEPT !.err = err]) EXCEPT !.panicked = Wrapped(err)]

\* A default rejection that sets the header whether or not RetryIn is available.
handleRejectionAlwaysHeader(i, r, res, u) ==
    LET r1 == Emit(r, [Ev("handleRejection") EXCEPT !.res = res])
    IN  IF i.abortHandler # Nil
        THEN [Emit(r1, [Ev("abortHandler") EXCEPT !.res = res]) EXCEPT !.userAct = u]
        ELSE AbortWithStatus(
               Header(r1, "X-Retry-In", Sprintf(Milliseconds(res.RetryIn))), 429)

\* handleRejection: the custom abort handler if any, else 429 with X-Retry-In
\* when the limiter gave a retry time.
handleRejection(i, r, res, u) ==
    LET r1 == Emit(r, [Ev("handleRejection") EXCEPT !.res = res])
    IN  IF i.abortHandler # Nil
        THEN [Emit(r1, [Ev("abortHandler") EXCEPT !.res = res]) EXCEPT !.userAct = u]
        ELSE LET r2 == IF res.RetryInAvailable
                       THEN Header(r1, "X-Retry-In", Sprintf(Milliseconds(res.RetryIn)))
                       ELSE r1
             IN  AbortWithStatus(r2, 429)

\* An accept path that continues the chain after the custom handler as well.
handleAcceptAlwaysNext(i, r, res, u) ==
    LET r1 == Emit(r, [Ev("handleAccept") EXCEPT !.res = res])
    IN  IF i.acceptHandler # Nil
        THEN Next_([Emit(r1, [Ev("acceptHandler") EXCEPT !.res = res]) EXCEPT !.userAct = u])
        ELSE Next_(r1)

\* handleAccept: the custom accept handler if any, else c.Next().
handleAccept(i, r, res, u) ==
    LET r1 == Emit(r, [Ev("handleAccept") EXCEPT !.res = res])
    IN  IF i.acceptHandler # Nil
        THEN [Emit(r1, [Ev("acceptHandler") EXCEPT !.res = res]) EXCEPT !.userAct = u]
        ELSE Next_(r1)

\* A key resolution that never asks the key function.
effectiveTenantKeyFixedOnly(i, kr) ==
    [key |-> i.tenantKey, err |-> Nil]

\* effectiveTenantKey: what the key function returned (kr) if there is one,
\* else the fixed key and no error.
effectiveTenantKey(i, kr) ==
    IF i.tenantKeyFunc # Nil THEN kr ELSE [key |-> i.tenantKey, err |-> Nil]

----------------------------------------------------------------------------
(* The closure routeLoadLimiter returns, in three steps *)

\* The call instance.tenantKeyFunc(c) and what it returned.
KeyFuncCall(kr) == [Ev("tenantKeyFunc") EXCEPT !.key = kr.key, !.err = kr.err]

\* A closure that resolves the tenant key before it looks at the load.
entryKeyFirst(i, r, kr, u) ==
    LET r0 == IF i.tenantKeyFunc # Nil THEN Emit(r, KeyFuncCall(kr)) ELSE r
        k  == effectiveTenantKey(i, kr)
        r1 == [r0 EXCEPT !.tenantKey = k.key, !.err = k.err]
    IN  IF k.err # Nil
        THEN [handleError(i, r1, k.err, u) EXCEPT !.pc = "done"]
        ELSE IF i.load <= 0
        THEN [Next_(r1) EXCEPT !.pc = "done"]
        ELSE [r1 EXCEPT !.pc = "submit"]

\* A closure that takes an empty tenant key for a failed resolution.
entryEmptyKeyIsError(i, r, kr, u) ==
    IF i.load <= 0
    THEN [Next_(r) EXCEPT !.pc = "done"]
    ELSE LET r0 == IF i.tenantKeyFunc # Nil THEN Emit(r, KeyFuncCall(kr)) ELSE r
             k  == effectiveTenantKey(i, kr)
             r1 == [r0 EXCEPT !.tenantKey = k.key, !.err = k.err]
         IN  IF k.err # Nil \/ k.key = ""
             THEN [handleError(i, r1, "empty tenant key", u) EXCEPT !.pc = "done"]
             ELSE [r1 EXCEPT !.pc = "submit"]

\* A load test no uint64 satisfies: the zero-load route is limited like any other.
entryNeverSkips(i, r, kr, u) ==
    LET r0 == IF i.tenantKeyFunc # Nil THEN Emit(r, KeyFuncCall(kr)) ELSE r
        k  == effectiveTenantKey(i, kr)
        r1 == [r0 EXCEPT !.tenantKey = k.key, !.err = k.err]
    IN  IF k.err # Nil
        THEN [handleError(i, r1, k.err, u) EXCEPT !.pc = "done"]
        ELSE [r1 EXCEPT !.pc = "submit"]

\* A key resolution whose error is dropped: the request goes on to Submit.
entryIgnoresKeyErr(i, r, kr, u) ==
    IF i.load <= 0
    THEN [Next_(r) EXCEPT !.pc = "done"]
    ELSE LET r0 == IF i.tenantKeyFunc # Nil THEN Emit(r, KeyFuncCall(kr)) ELSE r
             k  == effectiveTenantKey(i, kr)
         IN  [r0 EXCEPT !.tenantKey = k.key, !.err = Nil, !.pc = "submit"]

\* Lines 113-126: the zero-load skip, then the tenant key; kr is what the key
\* function returns if it is called, u what the error handler does if it is.
entry(i, r, kr, u) ==
    IF i.load <= 0
    THEN [Next_(r) EXCEPT !.pc = "done"]
    ELSE LET r0 == IF i.tenantKeyFunc # Nil THEN Emit(r, KeyFuncCall(kr)) ELSE r
             k  == effectiveTenantKey(i, kr)
             r1 == [r0 EXCEPT !.tenantKey = k.key, !.err = k.err]
         IN  IF k.err # Nil
             THEN [handleError(i, r1, k.err, u) EXCEPT !.pc = "done"]
             ELSE [r1 EXCEPT !.pc = "submit"]

\* A Submit under the instance's fixed key, whatever key was resolved.
submitFixedKey(i, r, sres, serr) ==
    [Emit(r, [Ev("Submit") EXCEPT !.key = i.tenantKey, !.load = i.load,
                                  !.res = sres, !.err = serr])
        EXCEPT !.res = sres, !.err = serr, !.pc = "dispatch"]

\* Line 129: res, err := instance.limiter.Submit(tenantKey, instance.load)
submit(i, r, sres, serr) ==
    [Emit(r, [Ev("Submit") EXCEPT !.key = r.tenantKey, !.load = i.load,
                                  !.res = sres, !.err = serr])
        EXCEPT !.res = sres, !.err = serr, !.pc = "dispatch"]

\* A dispatch that looks at res.Accepted before it looks at err.
dispatchAcceptedFirst(i, r, u) ==
    [ (IF r.res.Accepted THEN handleAccept(i, r, r.res, u)
       ELSE IF r.err # Nil THEN handleError(i, r, r.err, u)
       ELSE handleRejection(i, r, r.res, u))
      EXCEPT !.pc = "done" ]

\* A dispatch without the return after handleRejection.
dispatchFallsThrough(i, r, u) ==
    [ (IF r.err # Nil THEN handleError(i, r, r.err, u)
       ELSE IF ~r.res.Accepted
            THEN handleAccept(i, handleRejection(i, r, r.res, u), r.res, u)
       ELSE handleAccept(i, r, r.res, u))
      EXCEPT !.pc = "done" ]

\* Lines 135-147: error, rejection or acceptance of what Submit returned.
dispatch(i, r, u) ==
    [ (IF r.err # Nil THEN handleError(i, r, r.err, u)
       ELSE IF ~r.res.Accepted THEN handleRejection(i, r, r.res, u)
       ELSE handleAccept(i, r, r.res, u))
      EXCEPT !.pc = "done" ]

----------------------------------------------------------------------------
(* Installation: Default, WithLoad, routeLoadLimiter's validation *)

\* routeLoadLimiter(p): panic with validateConfig's error, or hand gin a
\* closure over p.
routeLoadLimiter(heap, p) ==
    LET e == validateConfig(heap, p)
    IN  IF e # Nil
        THEN [installed |-> installed, panics |-> panics \cup {[inst |-> p, msg |-> e]}]
        ELSE [installed |-> installed \cup {p}, panics |-> panics]

\* instance.Default()
Default(p) ==
    /\ p \in Held
    /\ LET out == routeLoadLimiter(instances, p)
       IN  /\ installed' = out.installed
           /\ panics' = out.panics
    /\ UNCHANGED <<instances, reqs>>
    /\ UNCHANGED world

\* A WithLoad that is a setter: it writes the load into the receiver and
\* installs the receiver.
WithLoadInPlace(p, load) ==
    /\ p \in Held
    /\ Len(instances) < MaxInstances
    /\ LET heap == [instances EXCEPT ![p].load = load]
           out  == routeLoadLimiter(heap, p)
       IN  /\ instances' = heap
           /\ installed' = out.installed
           /\ panics' = out.panics
    /\ UNCHANGED reqs
    /\ UNCHANGED world

\* instance.WithLoad(load): clone, set the clone's load, Default() on the clone.
WithLoad(p, load) ==
    /\ p \in Held
    /\ Len(instances) < MaxInstances
    /\ LET c    == clone(instances, p)
           heap == [c.heap EXCEPT ![c.ptr].load = load]
           out  == routeLoadLimiter(heap, c.ptr)
       IN  /\ instances' = heap
           /\ installed' = out.installed
           /\ panics' = out.panics
    /\ UNCHANGED reqs
    /\ UNCHANGED world

----------------------------------------------------------------------------
(* Requests *)

\* gin calls an installed handler on a fresh context.
Begin(s, p) ==
    /\ reqs[s].pc = "idle"
    /\ p \in installed
    /\ reqs' = [reqs EXCEPT ![s] = [IdleReq EXCEPT !.pc = "entry", !.inst = p]]
    /\ UNCHANGED <<instances, installed, panics>>
    /\ UNCHANGED world

Entry(s) ==
    /\ reqs[s].pc = "entry"
    /\ \E kr \in KeyFuncResults, u \in UserActs :
         reqs' = [reqs EXCEPT ![s] = entry(instances[reqs[s].inst], reqs[s], kr, u)]
    /\ UNCHANGED <<instances, installed, panics>>
    /\ UNCHANGED world

Submit(s) ==
    /\ reqs[s].pc = "submit"
    /\ \E ret \in SubmitReturns :
         reqs' = [reqs EXCEPT ![s] = submit(instances[reqs[s].inst], reqs[s], ret.res, ret.err)]
    /\ UNCHANGED <<instances, installed, panics>>
    /\ UNCHANGED world

Dispatch(s) ==
    /\ reqs[s].pc = "dispatch"
    /\ \E u \in UserActs :
         reqs' = [reqs EXCEPT ![s] = dispatch(instances[reqs[s].inst], reqs[s], u)]
    /\ UNCHANGED <<instances, installed, panics>>
    /\ UNCHANGED world

\* The handler returned (or panicked) and gin is done with the context.
Finish(s) ==
    /\ reqs[s].pc = "done"
    /\ reqs' = [reqs EXCEPT ![s] = IdleReq]
    /\ UNCHANGED <<instances, installed, panics>>
    /\ UNCHANGED world

----------------------------------------------------------------------------
(* The specification *)

Init ==
    /\ \E config \in Configs : instances = <<NewLimiterMiddleware(config)>>
    /\ installed = {}
    /\ panics = {}
    /\ reqs = [s \in Slots |-> IdleReq]
    /\ chain = [s \in Slots |-> <<>>]
    /\ client = [s \in Slots |-> NoClient]
    /\ goll = [k \in Tenants |-> <<>>]
    /\ now = 0

Next ==
    \/ \E p \in Held : Default(p)
    \/ \E p \in Held, load \in Loads : WithLoad(p, load)
    \/ \E s \in Slots, p \in 1..MaxInstances : Begin(s, p)
    \/ \E s \in Slots : Entry(s)
    \/ \E s \in Slots : Submit(s)
    \/ \E s \in Slots : Dispatch(s)
    \/ \E s \in Slots : Finish(s)

Spec == Init /\ [][Next]_vars

----------------------------------------------------------------------------
(* What the properties below read off a request *)

\* The calls named op in the closure's run r.
Calls(r, op) == {k \in 1..Len(r.trace) : r.trace[k].op = op}
Count(r, op) == Cardinality(Calls(r, op))

\* How many of the accept, reject and error handlings fired.
Fired(r) == Count(r, "handleAccept") + Count(r, "handleRejection") + Count(r, "handleError")

\* The instance a request's closure captured.
InstOf(r) == instances[r.inst]

\* "limiter present and exactly one tenant-key source set"
WellFormed(i) ==
    /\ i.limiter # Nil
    /\ (i.tenantKey # "") # (i.tenantKeyFunc # Nil)

Running == {s \in Slots : reqs[s].pc # "idle"}
Finished == {s \in Slots : reqs[s].pc = "done"}

----------------------------------------------------------------------------
(* C1 *)

\* C1 as stated: every finished request, whatever the load of its handler's
\* instance, had exactly one of accept, reject and error handling fire, and none
\* of them more than once.
C1_ExactlyOneFires ==
    \A s \in Slots :
        /\ Count(reqs[s], "handleAccept") <= 1
        /\ Count(reqs[s], "handleRejection") <= 1
        /\ Count(reqs[s], "handleError") <= 1
        /\ s \in Finished => Fired(reqs[s]) = 1

\* C1 amended: none of accept, reject and error handling fires more than once;
\* a finished request through a handler of load > 0 had exactly one of them
\* fire, and one through a handler of load 0 had none.
C1_ExactlyOneFiresWhenLimited ==
    \A s \in Slots :
        /\ Count(reqs[s], "handleAccept") <= 1
        /\ Count(reqs[s], "handleRejection") <= 1
        /\ Count(reqs[s], "handleError") <= 1
        /\ s \in Finished =>
             Fired(reqs[s]) = (IF InstOf(reqs[s]).load > 0 THEN 1 ELSE 0)

\* A request through a handler of load > 0 finished in a rejection.
C1_Witness ==
    \E s \in Finished :
        /\ InstOf(reqs[s]).load > 0
        /\ Count(reqs[s], "handleRejection") = 1

----------------------------------------------------------------------------
(* C2 *)

\* C2, the states: no handler is installed on, and no request runs through, an
\* instance that lacks the limiter or has both or neither tenant-key source;
\* every such instance made by WithLoad has its panic on record.
C2_NoMalformedHandler ==
    /\ \A p \in installed : WellFormed(instances[p])
    /\ \A s \in Running : WellFormed(InstOf(reqs[s]))
    /\ \A p \in 1..Len(instances) :
         (p \notin Held /\ ~WellFormed(instances[p])) => \E x \in panics : x.inst = p

\* C2, the steps: Default() and WithLoad(n) on such a configuration install
\* nothing and panic.
C2_InstallPanics ==
    \A p \in Held :
        /\ (Default(p) /\ ~WellFormed(instances[p])) =>
              /\ installed' = installed
              /\ \E x \in panics' : x.inst = p
        /\ \A n \in Loads :
              (WithLoad(p, n) /\ ~WellFormed(instances[p])) =>
                 /\ installed' = installed
                 /\ \E x \in panics' : x.inst = Len(instances')

\* C2: installing a handler from a configuration without limiter, or with both
\* or neither tenant-key source, panics and installs nothing, so no request is
\* ever processed by a handler of such an instance.
C2_MalformedNeverInstalled ==
    []C2_NoMalformedHandler /\ [][C2_InstallPanics]_vars

\* Both sources were given, Default() and WithLoad(n) were called and panicked.
C2_Witness ==
    /\ instances[1].limiter # Nil
    /\ instances[1].tenantKey # ""
    /\ instances[1].tenantKeyFunc # Nil
    /\ Len(instances) >= 2
    /\ \A p \in 1..2 : \E x \in panics : x.inst = p
    /\ installed = {}

----------------------------------------------------------------------------
(* C3 *)

\* C3: a request through a handler whose instance has load 0 never has Submit
\* called, and when it has finished the chain was continued: c.Next() ran, and
\* nothing aborted the context or panicked.
C3_ZeroLoadSkips ==
    \A s \in Running :
        InstOf(reqs[s]).load = 0 =>
            /\ Count(reqs[s], "Submit") = 0
            /\ s \in Finished =>
                 /\ Count(reqs[s], "Next") = 1
                 /\ ~reqs[s].aborted
                 /\ reqs[s].panicked = <<>>

\* A load-0 request finished on an instance with a key function.
C3_Witness ==
    \E s \in Finished :
        /\ InstOf(reqs[s]).load = 0
        /\ InstOf(reqs[s]).tenantKeyFunc # Nil

----------------------------------------------------------------------------
(* C4 *)

\* C4, the steps: no step changes an instance that exists, and WithLoad(n) on p
\* adds one instance, equal to p's in every field but load, which is n.
C4_Frame ==
    /\ Len(instances') >= Len(instances)
    /\ \A q \in 1..Len(instances) : instances'[q] = instances[q]
    /\ \A p \in Held, n \in Loads :
         WithLoad(p, n) =>
            /\ Len(instances') = Len(instances) + 1
            /\ instances'[Len(instances')] = [instances[p] EXCEPT !.load = n]

\* C4, the states: every specialized instance equals the parent but for load,
\* and every Submit a request made carried the load of its own instance.
C4_OwnLoad ==
    /\ \A q \in 1..Len(instances) : \E n \in Loads :
         instances[q] = [instances[1] EXCEPT !.load = n]
    /\ \A s \in Running : \A k \in Calls(reqs[s], "Submit") :
         reqs[s].trace[k].load = InstOf(reqs[s]).load

\* C4: WithLoad(n) leaves the instance it is called on, and every other one,
\* as it was; the new instance is the parent with load n; each handler submits
\* the load of its own instance.
C4_SpecializeIsPure ==
    []C4_OwnLoad /\ [][C4_Frame]_vars

\* Two specializations with different loads, each different from the parent's
\* or not, and a request through the first one has submitted its own load.
C4_Witness ==
    /\ Len(instances) = 3
    /\ instances[2].load > 0
    /\ instances[3].load > 0
    /\ instances[2].load # instances[3].load
    /\ \E s \in Running :
         /\ reqs[s].inst = 2
         /\ \E k \in Calls(reqs[s], "Submit") : reqs[s].trace[k].load = instances[2].load

----------------------------------------------------------------------------
(* C5 *)

\* The middleware's own code called c.Next(), or the custom accept handler
\* chose to.
Continued(r) ==
    \/ Count(r, "Next") > 0
    \/ (Count(r, "acceptHandler") > 0 /\ r.userAct = "next")

\* C5 as stated: the chain is continued only via the Accept path.
C5_ContinuedOnlyViaAccept ==
    \A s \in Slots : Continued(reqs[s]) => Count(reqs[s], "handleAccept") = 1

\* C5 amended: the chain is continued only via the Accept path (the default
\* accept behaviour, or a custom accept handler that chooses to) or by the
\* skip of a handler whose load is 0, which calls c.Next() without any of the
\* three paths; the reject and error paths never call c.Next().
C5_ContinuedOnlyViaAcceptOrSkip ==
    \A s \in Slots :
        /\ Continued(reqs[s]) =>
             \/ /\ Count(reqs[s], "handleAccept") = 1
                /\ InstOf(reqs[s]).load > 0
                /\ Count(reqs[s], "Next") = (IF InstOf(reqs[s]).acceptHandler = Nil THEN 1 ELSE 0)
             \/ /\ InstOf(reqs[s]).load = 0
                /\ Fired(reqs[s]) = 0
                /\ Count(reqs[s], "Next") = 1
        /\ Count(reqs[s], "handleRejection") + Count(reqs[s], "handleError") > 0 =>
             Count(reqs[s], "Next") = 0

\* A request was continued by the default accept behaviour.
C5_Witness ==
    \E s \in Finished :
        /\ Count(reqs[s], "handleAccept") = 1
        /\ InstOf(reqs[s]).acceptHandler = Nil
        /\ Count(reqs[s], "Next") = 1

----------------------------------------------------------------------------
(* C6, C7 *)

\* The key function was called and returned an error; Submit was called and did.
KeyFailed(r) == \E k \in Calls(r, "tenantKeyFunc") : r.trace[k].err # Nil
SubmitFailed(r) == \E k \in Calls(r, "Submit") : r.trace[k].err # Nil

\* The errors the key function and Submit returned to this request.
ErrsReturned(r) ==
    {r.trace[k].err : k \in Calls(r, "tenantKeyFunc") \cup Calls(r, "Submit")} \ {Nil}

\* C6: a request whose key function failed has finished on the Error path, with
\* the key function's error, without accept or reject handling and without a
\* call of Submit; under a fixed TenantKey the key is that string, the key
\* function is not called, and the Error path fires only after Submit failed.
C6_KeyErrorIsError ==
    \A s \in Running :
        LET r == reqs[s] IN
        /\ KeyFailed(r) =>
             /\ s \in Finished
             /\ Count(r, "Submit") = 0
             /\ Count(r, "handleAccept") = 0
             /\ Count(r, "handleRejection") = 0
             /\ Count(r, "handleError") = 1
             /\ \A k \in Calls(r, "handleError") : {r.trace[k].err} = ErrsReturned(r)
        /\ InstOf(r).tenantKeyFunc = Nil =>
             /\ Count(r, "tenantKeyFunc") = 0
             /\ \A k \in Calls(r, "Submit") : r.trace[k].key = InstOf(r).tenantKey
             /\ Count(r, "handleError") > 0 => SubmitFailed(r)

\* The key function returned a key together with an error, and the request
\* finished on the Error path.
C6_Witness ==
    \E s \in Finished :
        /\ \E k \in Calls(reqs[s], "tenantKeyFunc") :
             reqs[s].trace[k].err # Nil /\ reqs[s].trace[k].key # ""
        /\ Count(reqs[s], "handleError") = 1

\* C7: a request whose Submit returned an error gets neither accept nor reject
\* handling, whatever the SubmitResult beside the error says, and has, when
\* finished, gone once through the Error path with that error.
C7_SubmitErrorIsError ==
    \A s \in Running :
        LET r == reqs[s] IN
        SubmitFailed(r) =>
            /\ Count(r, "handleAccept") = 0
            /\ Count(r, "handleRejection") = 0
            /\ s \in Finished =>
                 /\ Count(r, "handleError") = 1
                 /\ \A k \in Calls(r, "handleError") : {r.trace[k].err} = ErrsReturned(r)

\* Submit returned an error beside a result with Accepted = TRUE, and the
\* request finished.
C7_Witness ==
    \E s \in Finished :
        \E k \in Calls(reqs[s], "Submit") :
            reqs[s].trace[k].err # Nil /\ reqs[s].trace[k].res.Accepted

----------------------------------------------------------------------------
(* C8, C9 *)

\* m is the duration d (ns) in whole milliseconds: the milliseconds that fit in d.
\* (The range keeps the products within TLC's 32-bit integers.)
IsWholeMs(m, d) ==
    /\ m \in -2147..2147
    /\ IF d >= 0
       THEN m * NsPerMs <= d /\ d < (m + 1) * NsPerMs
       ELSE (m - 1) * NsPerMs < d /\ d <= m * NsPerMs

\* Submit returned no error and a rejection whose RetryInAvailable is avail, on
\* an instance without a custom abort handler.
DefaultReject(r, avail) ==
    /\ InstOf(r).abortHandler = Nil
    /\ \E k \in Calls(r, "Submit") :
         /\ r.trace[k].err = Nil
         /\ ~r.trace[k].res.Accepted
         /\ r.trace[k].res.RetryInAvailable = avail

\* The response is the default rejection: 429, the chain aborted and not
\* continued, no custom handler and no panic.
Aborted429(r) ==
    /\ r.status = 429
    /\ r.aborted
    /\ Count(r, "Next") = 0
    /\ r.userAct = ""
    /\ r.panicked = <<>>

\* C8: a finished request that Submit rejected with RetryInAvailable, on an
\* instance without abort handler, has status 429, the chain terminated, and
\* one X-Retry-In header whose text reads as RetryIn in whole milliseconds.
C8_RetryHeader ==
    \A s \in Finished :
        LET r == reqs[s] IN
        DefaultReject(r, TRUE) =>
            /\ Aborted429(r)
            /\ Cardinality(r.headers) = 1
            /\ \A h \in r.headers :
                 /\ h[1] = "X-Retry-In"
                 /\ h[2] # <<>>
                 /\ IsWholeMs(Atoi(h[2]), r.res.RetryIn)

\* A rejection with RetryIn = 12.345678 ms was answered with X-Retry-In: 12.
C8_Witness ==
    \E s \in Finished :
        /\ DefaultReject(reqs[s], TRUE)
        /\ reqs[s].res.RetryIn = 12345678
        /\ reqs[s].headers = {<<"X-Retry-In", <<"1", "2">> >>}

\* C9: a finished request that Submit rejected without RetryInAvailable, on an
\* instance without abort handler, has status 429, the chain terminated, and no
\* header set, whatever RetryIn holds.
C9_NoRetryHeader ==
    \A s \in Finished :
        LET r == reqs[s] IN
        DefaultReject(r, FALSE) =>
            /\ Aborted429(r)
            /\ r.headers = {}
            /\ Count(r, "Header") = 0

\* Such a rejection, with a RetryIn that is not zero.
C9_Witness ==
    \E s \in Finished :
        /\ DefaultReject(reqs[s], FALSE)
        /\ reqs[s].res.RetryIn # 0
        /\ reqs[s].status = 429

----------------------------------------------------------------------------
(* C10 *)

\* The middleware's own code left the response and the chain alone.
Untouched(r) ==
    /\ r.status = 200
    /\ r.headers = {}
    /\ ~r.aborted
    /\ Count(r, "Next") = 0
    /\ Count(r, "Header") = 0
    /\ Count(r, "AbortWithStatus") = 0

\* C10: on the Error path, a configured error handler is invoked once, with the
\* error the key function or Submit returned, and the middleware neither
\* panics nor touches the response or the chain itself; without an error
\* handler the closure panics with that error wrapped, and neither continues
\* the chain nor writes a response.
C10_ErrorPath ==
    \A s \in Running :
        LET r == reqs[s] IN
        Count(r, "handleError") > 0 =>
            /\ s \in Finished
            /\ Untouched(r)
            /\ IF InstOf(r).errorHandler # Nil
               THEN /\ Count(r, "errorHandler") = 1
                    /\ \A k \in Calls(r, "errorHandler") : {r.trace[k].err} = ErrsReturned(r)
                    /\ r.panicked = <<>>
               ELSE /\ Count(r, "errorHandler") = 0
                    /\ r.userAct = ""
                    /\ \E e \in ErrsReturned(r) : r.panicked = Wrapped(e)

\* A Submit error was handed to the custom error handler.
C10_Witness ==
    \E s \in Finished :
        /\ SubmitFailed(reqs[s])
        /\ InstOf(reqs[s]).errorHandler # Nil
        /\ Count(reqs[s], "errorHandler") = 1

----------------------------------------------------------------------------
(* C11 *)

\* The results Submit returned to this request without an error.
ResultsReturned(r) ==
    {r.trace[k].res : k \in {j \in Calls(r, "Submit") : r.trace[j].err = Nil}}

\* C11: after Submit succeeded with Accepted, a configured accept handler is
\* invoked once with that result and the middleware itself neither continues
\* the chain nor touches the response; without one the middleware calls
\* c.Next() once.  After a rejection, a configured abort handler is invoked
\* once with the result, and no 429, header or abort comes from the middleware.
C11_CustomReplacesDefault ==
    \A s \in Finished :
        LET r == reqs[s] IN
        /\ (\E res \in ResultsReturned(r) : res.Accepted) =>
             /\ Count(r, "handleAccept") = 1
             /\ IF InstOf(r).acceptHandler # Nil
                THEN /\ Count(r, "acceptHandler") = 1
                     /\ \A k \in Calls(r, "acceptHandler") :
                          {r.trace[k].res} = ResultsReturned(r)
                     /\ Untouched(r)
                ELSE /\ Count(r, "acceptHandler") = 0
                     /\ r.userAct = ""
                     /\ Count(r, "Next") = 1
                     /\ ~r.aborted
        /\ ((\E res \in ResultsReturned(r) : ~res.Accepted) /\ InstOf(r).abortHandler # Nil) =>
             /\ Count(r, "handleRejection") = 1
             /\ Count(r, "abortHandler") = 1
             /\ \A k \in Calls(r, "abortHandler") : {r.trace[k].res} = ResultsReturned(r)
             /\ Untouched(r)

\* A custom accept handler was invoked and chose not to continue the chain.
C11_Witness ==
    \E s \in Finished :
        /\ Count(reqs[s], "acceptHandler") = 1
        /\ reqs[s].userAct = "abort"
        /\ Count(reqs[s], "Next") = 0

----------------------------------------------------------------------------
(* C16 *)

\* What comes after Submit: the three paths and what they call.
Handling ==
    {"handleAccept", "handleRejection", "handleError", "acceptHandler", "abortHandler",
     "errorHandler", "Next", "Header", "AbortWithStatus", "panic"}

\* C16: a pass through the handler calls Submit at most once, and once it has
\* finished exactly once if load > 0 and the key was resolved, else not at all;
\* the call passes the key resolved for this request and the load of the
\* handler's instance, and comes after the key function's call and before any
\* accept, reject or error handling.
C16_OneSubmit ==
    \A s \in Running :
        LET r == reqs[s] IN
        /\ Count(r, "Submit") <= 1
        /\ s \in Finished =>
             Count(r, "Submit") = (IF InstOf(r).load > 0 /\ ~KeyFailed(r) THEN 1 ELSE 0)
        /\ \A k \in Calls(r, "Submit") :
             /\ r.trace[k].load = InstOf(r).load
             /\ IF InstOf(r).tenantKeyFunc # Nil
                THEN \E j \in Calls(r, "tenantKeyFunc") :
                        j < k /\ r.trace[j].err = Nil /\ r.trace[j].key = r.trace[k].key
                ELSE r.trace[k].key = InstOf(r).tenantKey
             /\ \A j \in 1..Len(r.trace) : r.trace[j].op \in Handling => j > k

\* The key function returned "B", Submit got "B" and rejected, and the
\* rejection was handled after it.
C16_Witness ==
    \E s \in Finished :
        /\ \E k \in Calls(reqs[s], "Submit") : reqs[s].trace[k].key = "B"
        /\ Count(reqs[s], "handleRejection") = 1

----------------------------------------------------------------------------
(* C17 *)

\* The messages of validateConfig.
ConfigErrors ==
    {"limiter is required", "one of TenantKey or TenantKeyFunc is required",
     "only one of TenantKey or TenantKeyFunc is required"}

\* Nothing has happened since the construction.
JustConstructed ==
    /\ Len(instances) = 1
    /\ installed = {}
    /\ panics = {}
    /\ Running = {}

\* The configuration an instance's fields were taken from.
ConfigOf(i) ==
    [ Limiter          |-> i.limiter,
      DefaultRouteLoad |-> i.load,
      TenantKey        |-> i.tenantKey,
      TenantKeyFunc    |-> i.tenantKeyFunc,
      AcceptHandler    |-> i.acceptHandler,
      AbortHandler     |-> i.abortHandler,
      ErrorHandler     |-> i.errorHandler ]

\* C17, construction: for every configuration NewLimiterMiddleware returns an
\* instance with the configuration's fields (looked at in the states right
\* after the construction), and the instance the caller holds is at all times
\* the instance of a configuration; a panic on record is a configuration error
\* of an instance that is not well formed.
C17_CreateCopies ==
    /\ JustConstructed =>
         \A c \in Configs :
            LET i == NewLimiterMiddleware(c) IN
            /\ i.limiter = c.Limiter
            /\ i.load = c.DefaultRouteLoad
            /\ i.tenantKey = c.TenantKey
            /\ i.tenantKeyFunc = c.TenantKeyFunc
            /\ i.acceptHandler = c.AcceptHandler
            /\ i.abortHandler = c.AbortHandler
            /\ i.errorHandler = c.ErrorHandler
    /\ \A p \in Held :
         /\ ConfigOf(instances[p]) \in Configs
         /\ instances[p] = NewLimiterMiddleware(ConfigOf(instances[p]))
    /\ \A x \in panics : x.msg \in ConfigErrors /\ ~WellFormed(instances[x.inst])

\* C17, the steps: panics come from Default() and WithLoad(n) only, and each
\* such call on an instance that is not well formed panics, a repeated one
\* too, with the error of the first condition of validateConfig that fails.
C17_EveryInstallValidates ==
    /\ panics' # panics => \E p \in Held : Default(p) \/ \E n \in Loads : WithLoad(p, n)
    /\ \A p \in Held :
         (~WellFormed(instances[p]) /\ (Default(p) \/ \E n \in Loads : WithLoad(p, n))) =>
            /\ installed' = {}
            /\ \E x \in panics' :
                 /\ x.inst = (IF Default(p) THEN p ELSE Len(instances'))
                 /\ x.msg = (IF instances[p].limiter = Nil
                             THEN "limiter is required"
                             ELSE IF instances[p].tenantKeyFunc = Nil
                             THEN "one of TenantKey or TenantKeyFunc is required"
                             ELSE "only one of TenantKey or TenantKeyFunc is required")

\* C17: NewLimiterMiddleware validates nothing and returns the configuration's
\* fields in an instance, for every configuration; the configuration error
\* comes as a panic of Default() and of WithLoad(n), at every such call.
C17_ValidationAtInstallOnly ==
    []C17_CreateCopies /\ [][C17_EveryInstallValidates]_vars

\* An instance exists for a configuration without limiter and without key
\* source, nothing panicked when it was made, and a later WithLoad(n) did.
C17_Witness ==
    /\ instances[1].limiter = Nil
    /\ instances[1].tenantKey = ""
    /\ instances[1].tenantKeyFunc = Nil
    /\ Len(instances) = 2
    /\ panics = {[inst |-> 2, msg |-> "limiter is required"]}

----------------------------------------------------------------------------
(* C18 *)

\* C18: a request through a handler of load 0 has no call of the key function
\* and of no custom handler, none of the three paths, and an untouched status
\* and header set; when it has finished, c.Next() is the one call it made.
C18_ZeroLoadBypasses ==
    \A s \in Running :
        LET r == reqs[s] IN
        InstOf(r).load = 0 =>
            /\ Count(r, "tenantKeyFunc") = 0
            /\ Count(r, "acceptHandler") + Count(r, "abortHandler") + Count(r, "errorHandler") = 0
            /\ Fired(r) = 0
            /\ r.userAct = ""
            /\ r.status = 200 /\ r.headers = {} /\ ~r.aborted /\ r.panicked = <<>>
            /\ s \in Finished => r.trace = <<Ev("Next")>>

\* A load-0 request finished on an instance that has a key function and all
\* three custom handlers.
C18_Witness ==
    \E s \in Finished :
        /\ InstOf(reqs[s]).load = 0
        /\ InstOf(reqs[s]).tenantKeyFunc # Nil
        /\ InstOf(reqs[s]).acceptHandler # Nil
        /\ InstOf(reqs[s]).abortHandler # Nil
        /\ InstOf(reqs[s]).errorHandler # Nil
        /\ reqs[s].trace = <<Ev("Next")>>

----------------------------------------------------------------------------
(* C19 *)

\* The key function returned the empty string and no error.
EmptyKey(r) ==
    \E k \in Calls(r, "tenantKeyFunc") : r.trace[k].key = "" /\ r.trace[k].err = Nil

\* C19: a request whose key function returned "" without error does not reach
\* the Error path unless Submit fails; when finished it has called Submit
\* once, with "" and the instance's load, and was dispatched on what Submit
\* returned: error, accept or reject handling.
C19_EmptyKeyIsATenant ==
    \A s \in Running :
        LET r == reqs[s] IN
        EmptyKey(r) =>
            /\ Count(r, "handleError") > 0 => SubmitFailed(r)
            /\ reqs[s].pc # "entry"
            /\ s \in Finished =>
                 /\ Count(r, "Submit") = 1
                 /\ \A k \in Calls(r, "Submit") :
                      /\ r.trace[k].key = ""
                      /\ r.trace[k].load = InstOf(r).load
                      /\ Count(r, "handleError") = (IF r.trace[k].err # Nil THEN 1 ELSE 0)
                      /\ Count(r, "handleAccept") =
                           (IF r.trace[k].err = Nil /\ r.trace[k].res.Accepted THEN 1 ELSE 0)
                      /\ Count(r, "handleRejection") =
                           (IF r.trace[k].err = Nil /\ ~r.trace[k].res.Accepted THEN 1 ELSE 0)

\* A request with the empty key was accepted.
C19_Witness ==
    \E s \in Finished :
        /\ EmptyKey(reqs[s])
        /\ Count(reqs[s], "handleAccept") = 1

----------------------------------------------------------------------------
(* Concurrent requests: two contexts in flight, their steps interleaved with *)
(* each other and with Default() and WithLoad(n).                            *)

ConcSlots == {1, 2}

\* Configurations that install, with a key function, and with all three
\* custom handlers or none.
ConcConfigs ==
    {c \in Configs :
        /\ c.Limiter # Nil /\ c.TenantKey = "" /\ c.TenantKeyFunc # Nil
        /\ (c.AcceptHandler = Nil) = (c.AbortHandler = Nil)
        /\ (c.AcceptHandler = Nil) = (c.ErrorHandler = Nil)}

ConcInit ==
    /\ \E config \in ConcConfigs : instances = <<NewLimiterMiddleware(config)>>
    /\ installed = {}
    /\ panics = {}
    /\ reqs = [s \in ConcSlots |-> IdleReq]
    /\ chain = [s \in ConcSlots |-> <<>>]
    /\ client = [s \in ConcSlots |-> NoClient]
    /\ goll = [k \in Tenants |-> <<>>]
    /\ now = 0

\* What Submit returns here: accepted, rejected with a retry time, or an error.
ConcReturns ==
    { [res |-> [Accepted |-> TRUE, RetryInAvailable |-> FALSE, RetryIn |-> 12345678],
       err |-> Nil],
      [res |-> [Accepted |-> FALSE, RetryInAvailable |-> TRUE, RetryIn |-> 12345678],
       err |-> Nil],
      [res |-> ZeroResult, err |-> "submitErr"] }

\* The steps of Spec on either slot; the key function answers for tenant "A"
\* and the limiter with one of ConcReturns.
ConcNext ==
    \/ \E p \in Held : Default(p)
    \/ \E p \in Held, load \in Loads : WithLoad(p, load)
    \/ \E s \in ConcSlots, p \in 1..MaxInstances : Begin(s, p)
    \/ \E s \in ConcSlots : Entry(s) /\ reqs'[s].tenantKey = "A"
    \/ \E s \in ConcSlots :
         Submit(s) /\ [res |-> reqs'[s].res, err |-> reqs'[s].err] \in ConcReturns
    \/ \E s \in ConcSlots : Dispatch(s)
    \/ \E s \in ConcSlots : Finish(s)

SpecConc == ConcInit /\ [][ConcNext]_vars

----------------------------------------------------------------------------
(* C15 *)

\* How a request ended, read off the path that fired.
Outcome(r) ==
    IF Count(r, "handleError") > 0 THEN "error"
    ELSE IF Count(r, "handleRejection") > 0 THEN "reject"
    ELSE IF Count(r, "handleAccept") > 0 THEN "accept"
    ELSE "skip"

\* How it has to end, given what its own key function call and its own Submit
\* returned and the load of its handler's instance.
OwnOutcome(r) ==
    IF InstOf(r).load = 0 THEN "skip"
    ELSE IF ErrsReturned(r) # {} THEN "error"
    ELSE IF \E res \in ResultsReturned(r) : res.Accepted THEN "accept"
    ELSE "reject"

\* C15, the states: each finished request ended as its own key resolution and
\* its own Submit result say, whatever the other request in flight did.
C15_OwnOutcome ==
    \A s \in ConcSlots :
        reqs[s].pc = "done" =>
            /\ Outcome(reqs[s]) = OwnOutcome(reqs[s])
            /\ Fired(reqs[s]) <= 1

\* C15, the steps: no step changes a field of an instance that exists, and a
\* step of a request changes nothing but that request.
C15_Frame ==
    /\ \A q \in 1..Len(instances) : Len(instances') >= q /\ instances'[q] = instances[q]
    /\ \A s \in ConcSlots :
         reqs'[s] # reqs[s] =>
            /\ instances' = instances
            /\ installed' = installed
            /\ panics' = panics
            /\ \A t \in ConcSlots \ {s} : reqs'[t] = reqs[t]

----------------------------------------------------------------------------
(* The limiter behind Submit: per tenant, the loads accepted within the last *)
(* window; a load is accepted if it fits under the capacity, and rejected    *)
(* with the time after which it will fit.                                    *)

Capacity == 3                  \* goll.Config.MaxLoad
MaxTicks == 4                  \* the clock stops after MaxTicks ticks
TickNs == NsPerMs \div 2       \* the clock's step: half a millisecond
WindowNs == 2 * TickNs         \* goll.Config.WindowSize
MaxTime == MaxTicks * TickNs

RECURSIVE Used(_)
\* The load of the entries es.
Used(es) == IF es = <<>> THEN 0 ELSE Head(es).load + Used(Tail(es))

\* The entries of es still inside the window at time t.
Live(es, t) == SelectSeq(es, LAMBDA e : e.t + WindowNs > t)

\* The waits after which an entry of es leaves the window.
Expiries(es, t) == {es[k].t + WindowNs - t : k \in 1..Len(es)}

\* The least wait after which load fits beside what is left of es.
RetryInOf(es, load, t) ==
    LET fits == {d \in Expiries(es, t) : Used(Live(es, t + d)) + load <= Capacity}
    IN  CHOOSE d \in fits : \A e \in fits : d <= e

\* The entries es and one more load at time t, one entry per instant.
Record(es, load, t) ==
    IF es # <<>> /\ es[Len(es)].t = t
    THEN [es EXCEPT ![Len(es)].load = @ + load]
    ELSE Append(es, [t |-> t, load |-> load])

\* limiter.Submit(key, load) at time t: the result, and the limiter after it.
GollSubmit(g, key, load, t) ==
    LET live == Live(g[key], t)
    IN  IF Used(live) + load <= Capacity
        THEN [ res  |-> [Accepted |-> TRUE, RetryInAvailable |-> FALSE, RetryIn |-> 0],
               goll |-> [g EXCEPT ![key] = Record(live, load, t)] ]
        ELSE IF load <= Capacity
        THEN [ res  |-> [Accepted |-> FALSE, RetryInAvailable |-> TRUE,
                         RetryIn |-> RetryInOf(live, load, t)],
               goll |-> [g EXCEPT ![key] = live] ]
        ELSE [ res  |-> ZeroResult, goll |-> [g EXCEPT ![key] = live] ]

----------------------------------------------------------------------------
(* The server of the README and of the test: routes made of the handlers, *)
(* clients that are tenants, the limiter above.                            *)

\* The configuration of the test: a limiter, the client's address as the
\* tenant key; rejections and errors are answered by the middleware itself,
\* as the test's AbortHandler answers them.
ServerConfigs ==
    {c \in Configs :
        /\ c.Limiter # Nil /\ c.TenantKey = "" /\ c.TenantKeyFunc # Nil
        /\ c.DefaultRouteLoad > 0
        /\ c.AcceptHandler = Nil /\ c.AbortHandler = Nil /\ c.ErrorHandler = Nil}

\* The clients' addresses.
Clients == {"A", "B"}

\* The handler chains of the routes: r.GET(path, h) for an installed handler
\* h, and the same after r.Use(ginLimiter.Default()).
Routes ==
    {<<p>> : p \in installed}
    \cup {<<q, p>> : q \in installed \cap Held, p \in installed \ Held}

ServerInit ==
    /\ \E config \in ServerConfigs : instances = <<NewLimiterMiddleware(config)>>
    /\ installed = {}
    /\ panics = {}
    /\ reqs = [s \in Slots |-> IdleReq]
    /\ chain = [s \in Slots |-> <<>>]
    /\ client = [s \in Slots |-> NoClient]
    /\ goll = [k \in Tenants |-> <<>>]
    /\ now = 0

\* A request of client `from` arrives on a route: gin calls the first handler.
Arrive(s, from, route) ==
    /\ reqs[s].pc = "idle"
    /\ route \in Routes
    /\ reqs' = [reqs EXCEPT ![s] = [IdleReq EXCEPT !.pc = "entry", !.inst = route[1]]]
    /\ chain' = [chain EXCEPT ![s] = Tail(route)]
    /\ client' = [client EXCEPT ![s] =
                    [from |-> from, route |-> route, retry |-> FALSE, dueAt |-> 0]]
    /\ UNCHANGED <<instances, installed, panics, goll, now>>

\* Lines 113-126, the key function being c.ClientIP().
ServerEntry(s) ==
    /\ reqs[s].pc = "entry"
    /\ \E u \in UserActs :
         reqs' = [reqs EXCEPT ![s] =
                    entry(instances[reqs[s].inst], reqs[s],
                          [key |-> client[s].from, err |-> Nil], u)]
    /\ UNCHANGED <<instances, installed, panics, world>>

\* Line 129, answered by the limiter.
ServerSubmit(s) ==
    /\ reqs[s].pc = "submit"
    /\ LET i   == instances[reqs[s].inst]
           r0  == submit(i, reqs[s], ZeroResult, Nil)
           k   == r0.trace[Len(r0.trace)]
           out == GollSubmit(goll, k.key, k.load, now)
       IN  /\ reqs' = [reqs EXCEPT ![s] = submit(i, reqs[s], out.res, Nil)]
           /\ goll' = out.goll
    /\ UNCHANGED <<instances, installed, panics, chain, client, now>>

\* The handler continued the chain.
Continues(r) ==
    /\ r.panicked = <<>>
    /\ ~r.aborted
    /\ Count(r, "Next") > 0 \/ r.userAct = "next"

\* Inside c.Next(): gin calls the next handler of the chain on the context.
NextHandler(s) ==
    /\ reqs[s].pc = "done"
    /\ chain[s] # <<>>
    /\ Continues(reqs[s])
    /\ reqs' = [reqs EXCEPT ![s] =
                  [@ EXCEPT !.pc = "entry", !.inst = Head(chain[s]),
                            !.tenantKey = "", !.err = Nil, !.res = ZeroResult]]
    /\ chain' = [chain EXCEPT ![s] = Tail(@)]
    /\ UNCHANGED <<instances, installed, panics, client, goll, now>>

\* The chain has ended, by its last handler or by an abort.
Answered(s) ==
    /\ reqs[s].pc = "done"
    /\ chain[s] = <<>> \/ ~Continues(reqs[s])

\* The response is out and the client goes away.
Respond(s) ==
    /\ Answered(s)
    /\ reqs' = [reqs EXCEPT ![s] = IdleReq]
    /\ chain' = [chain EXCEPT ![s] = <<>>]
    /\ client' = [client EXCEPT ![s] = NoClient]
    /\ UNCHANGED <<instances, installed, panics, goll, now>>

\* The client of the test: on a 429 it sleeps the X-Retry-In milliseconds and
\* sends the request again.
RetryAfterWait(s) ==
    /\ Answered(s)
    /\ reqs[s].status = 429
    /\ \E h \in reqs[s].headers :
         /\ h[1] = "X-Retry-In"
         /\ now + Atoi(h[2]) * NsPerMs <= MaxTime
         /\ now' = now + Atoi(h[2]) * NsPerMs
    /\ reqs' = [reqs EXCEPT ![s] =
                  [IdleReq EXCEPT !.pc = "entry", !.inst = client[s].route[1]]]
    /\ chain' = [chain EXCEPT ![s] = Tail(client[s].route)]
    /\ client' = [client EXCEPT ![s] =
                    [@ EXCEPT !.retry = TRUE, !.dueAt = now + reqs[s].res.RetryIn]]
    /\ UNCHANGED <<instances, installed, panics, goll>>

\* Time passes between requests, and the window slides.
Tick ==
    /\ \A s \in Slots : reqs[s].pc = "idle"
    /\ now + TickNs <= MaxTime
    /\ now' = now + TickNs
    /\ goll' = [k \in Tenants |-> Live(goll[k], now')]
    /\ UNCHANGED <<instances, installed, panics, reqs, chain, client>>

ServerNext ==
    \/ \E p \in Held : Default(p)
    \/ \E p \in Held, load \in Loads : WithLoad(p, load) /\ Len(instances') <= 2
    \/ \E s \in Slots, from \in Clients, p, q \in 1..MaxInstances :
         Arrive(s, from, <<p>>) \/ Arrive(s, from, <<q, p>>)
    \/ \E s \in Slots : ServerEntry(s)
    \/ \E s \in Slots : ServerSubmit(s)
    \/ \E s \in Slots : Dispatch(s)
    \/ \E s \in Slots : NextHandler(s)
    \/ \E s \in Slots : Respond(s)
    \/ \E s \in Slots : RetryAfterWait(s)
    \/ Tick

SpecServer == ServerInit /\ [][ServerNext]_vars

----------------------------------------------------------------------------
(* C12 *)

RECURSIVE ChargedFrom(_, _)
\* The load the Submit calls from the k-th event on were accepted with.
ChargedFrom(r, k) ==
    IF k > Len(r.trace) THEN 0
    ELSE (IF r.trace[k].op = "Submit" /\ r.trace[k].err = Nil /\ r.trace[k].res.Accepted
          THEN r.trace[k].load ELSE 0) + ChargedFrom(r, k + 1)

\* The load one request was charged on its way through the route.
Charged(r) == ChargedFrom(r, 1)

\* The load configured for a route: that of its own handler, the last of the
\* chain (WithLoad(n): n; Default(): DefaultRouteLoad).
RouteLoad(route) == instances[route[Len(route)]].load

\* The request went through every handler of its route.
Served(s) ==
    /\ Answered(s)
    /\ chain[s] = <<>>
    /\ Continues(reqs[s])

\* C12 as stated: a served request was charged exactly the load of its route,
\* n on a route registered with WithLoad(n), DefaultRouteLoad on a route with
\* Default() alone, also when Default() is installed in front of WithLoad(n).
C12_ChargedRouteLoad ==
    \A s \in Slots : Served(s) => Charged(reqs[s]) = RouteLoad(client[s].route)

----------------------------------------------------------------------------
(* C13 *)

\* The load of the tenant's window before the request in slot s was submitted.
UsedBefore(s) ==
    Used(Live(goll[client[s].from], now)) - Charged(reqs[s])

\* Answered requests on a route of one handler with a load.
Single ==
    {s \in Slots : /\ Answered(s)
                   /\ Len(client[s].route) = 1
                   /\ RouteLoad(client[s].route) > 0}

\* C13: a request on a route of load L is accepted with 200 and charged L if
\* the loads its own tenant was accepted with inside the window leave room for
\* L under the capacity, and rejected with 429 and charged nothing if they do
\* not, whatever the other tenants have used.
C13_PerTenantCapacity ==
    \A s \in Single :
        LET r == reqs[s]
            L == RouteLoad(client[s].route)
        IN  /\ UsedBefore(s) >= 0
            /\ IF UsedBefore(s) + L <= Capacity
               THEN r.status = 200 /\ Count(r, "Next") = 1 /\ Charged(r) = L
               ELSE Aborted429(r) /\ Charged(r) = 0

\* A request of B is accepted while A's window is full.
C13_Witness ==
    \E s \in Single :
        /\ client[s].from = "B"
        /\ reqs[s].status = 200
        /\ Count(reqs[s], "Next") = 1
        /\ Used(Live(goll["A"], now)) = Capacity
        /\ Used(Live(goll["B"], now)) = RouteLoad(client[s].route)

----------------------------------------------------------------------------
(* C14 *)

\* C14 as stated: the request a client sends after it was rejected and has
\* waited the signalled time is not rejected with 429.
C14_RetryAccepted ==
    \A s \in Single : client[s].retry => reqs[s].status # 429

====
